---- MODULE Spec2Model ----
(***************************************************************************)
(* Model of upload_to_archon.py: a module-level script that walks the      *)
(* hardcoded manifest `documents`, reads every referenced file from        *)
(* SECTIONS_DIR, builds the content_json dictionary and prints a preview   *)
(* block per document, then two closing lines.                             *)
(*                                                                         *)
(* Text that the script takes apart (file names, paths, file contents) is  *)
(* a sequence of one-character strings or of byte / code-point numbers;    *)
(* text that it only copies (titles, summaries) is a TLA+ string.          *)
(* One action is one statement of the script; the program counter pc       *)
(* names the statement that runs next.                                     *)
(***************************************************************************)
EXTENDS Integers, Sequences, FiniteSets, TLC

VARIABLES documents, PROJECT_ID, fs, pc, it, doc, filepath, content,
          content_json, stdout, exc, reads

vars == <<documents, PROJECT_ID, fs, pc, it, doc, filepath, content,
          content_json, stdout, exc, reads>>

(***************************************************************************)
(* Bounds of the explored inputs.                                          *)
(***************************************************************************)
MaxDocs == 3
MaxNameLen == 4
MaxContentLen == 3

(***************************************************************************)
(* Program constants.                                                      *)
(***************************************************************************)
documents_src ==
    <<
       [file |-> <<"0","1","_","e","x","e","c","u","t","i","v","e","_","s","u","m","m","a","r","y",".","m","d">>,
        title |-> "Part 1: Executive Summary",
        summary |-> "Overview of cursor-memory-bank analysis and Pydantic AI replication strategy"],
       [file |-> <<"0","2","_","v","a","n","_","m","o","d","e","_","w","o","r","k","f","l","o","w",".","m","d">>,
        title |-> "Part 2: VAN Mode Workflow",
        summary |-> "Detailed analysis of VAN mode initialization, complexity detection, and forced transitions"],
       [file |-> <<"0","3","_","p","l","a","n","_","c","r","e","a","t","i","v","e","_","m","o","d","e","s",".","m","d">>,
        title |-> "Part 3: PLAN and CREATIVE Modes",
        summary |-> "Analysis of planning and creative design workflows with lazy loading"],
       [file |-> <<"0","4","_","l","a","z","y","_","l","o","a","d","i","n","g","_","i","m","p","l","e","m","e","n","t","a","t","i","o","n",".","m","d">>,
        title |-> "Part 4: Lazy Loading Deep Dive",
        summary |-> "Technical deep dive into hierarchical rule loading and 78% token reduction"],
       [file |-> <<"0","5","_","p","y","d","a","n","t","i","c","_","a","i","_","c","o","m","p","l","e","t","e","_","c","o","d","e",".","m","d">>,
        title |-> "Part 5: Pydantic AI Complete Code",
        summary |-> "Full implementation code for all agents, orchestrator, and lazy loader"],
       [file |-> <<"0","6","_","i","m","p","l","e","m","e","n","t","a","t","i","o","n","_","g","u","i","d","e",".","m","d">>,
        title |-> "Part 6: Implementation Guide",
        summary |-> "Step-by-step setup guide, testing, and deployment instructions"],
       [file |-> <<"0","7","_","c","o","m","p","a","r","i","s","o","n","_","c","o","n","c","l","u","s","i","o","n",".","m","d">>,
        title |-> "Part 7: Comparison & Conclusion",
        summary |-> "Feature comparison, use case recommendations, and final analysis"]
    >>

PROJECT_ID_src == "0df6b7ed-4fef-4d1b-9b37-1e496099042b"

SECTIONS_DIR == <<"a","n","a","l","y","s","i","s","_","s","e","c","t","i","o","n","s">>

SeparatorWidth == 60

ContentKeys == <<"markdown_content", "summary", "part", "file_reference">>

(***************************************************************************)
(* str.split(sep) for a one-character separator: the pieces between the    *)
(* occurrences of sep, empty pieces included.                              *)
(***************************************************************************)
RECURSIVE SplitLast(_, _)
SplitLast(s, sep) ==
    IF \E k \in 1..Len(s) : s[k] = sep
    THEN LET k == CHOOSE j \in 1..Len(s) :
                     /\ s[j] = sep
                     /\ \A m \in (j+1)..Len(s) : s[m] # sep
         IN  <<SubSeq(s, 1, k - 1)>> \o SplitLast(SubSeq(s, k + 1, Len(s)), sep)
    ELSE <<s>>

RECURSIVE Split(_, _)
Split(s, sep) ==
    IF \E k \in 1..Len(s) : s[k] = sep
    THEN LET k == CHOOSE j \in 1..Len(s) :
                     /\ s[j] = sep
                     /\ \A m \in 1..(j-1) : s[m] # sep
         IN  <<SubSeq(s, 1, k - 1)>> \o Split(SubSeq(s, k + 1, Len(s)), sep)
    ELSE <<s>>

(***************************************************************************)
(* pathlib: SECTIONS_DIR / name, rendered by str().  An absolute name      *)
(* replaces the base; empty and "." components are dropped.                *)
(***************************************************************************)
RECURSIVE JoinComponents(_)
JoinComponents(cs) ==
    IF cs = <<>> THEN <<>>
    ELSE IF Len(cs) = 1 THEN cs[1]
    ELSE cs[1] \o <<"/">> \o JoinComponents(Tail(cs))

PathComponents(p) ==
    SelectSeq(Split(p, "/"), LAMBDA c : c # <<>> /\ c # <<".">>)

NormalizePath(p) ==
    LET cs  == PathComponents(p)
        abs == p # <<>> /\ p[1] = "/"
    IN  IF abs THEN <<"/">> \o JoinComponents(cs)
        ELSE IF cs = <<>> THEN <<".">>
        ELSE JoinComponents(cs)

JoinPath(base, name) ==
    IF name # <<>> /\ name[1] = "/"
    THEN NormalizePath(name)
    ELSE NormalizePath(base \o <<"/">> \o name)

(***************************************************************************)
(* Path.read_text(): open the file, decode its bytes as UTF-8 (strict),    *)
(* translate "\r\n" and "\r" to "\n".  read_text() is called without an    *)
(* encoding, so the codec is the preferred encoding of the locale; it is   *)
(* taken to be UTF-8, the encoding of the section files.                   *)
(***************************************************************************)
MissingFile == [exists |-> FALSE, readable |-> FALSE, bytes |-> <<>>]

FsLookup(f, path) == IF path \in DOMAIN f THEN f[path] ELSE MissingFile

SeqLength(b) ==
    IF b < 128 THEN 1
    ELSE IF b \in 194..223 THEN 2
    ELSE IF b \in 224..239 THEN 3
    ELSE IF b \in 240..244 THEN 4
    ELSE 0

ContinuationRange(lead, j) ==
    IF j > 1 THEN 128..191
    ELSE IF lead = 224 THEN 160..191
    ELSE IF lead = 237 THEN 128..159
    ELSE IF lead = 240 THEN 144..191
    ELSE IF lead = 244 THEN 128..143
    ELSE 128..191

LeadBits(lead, n) ==
    IF n = 2 THEN lead - 192 ELSE IF n = 3 THEN lead - 224 ELSE lead - 240

RECURSIVE CodePoint(_, _, _, _)
CodePoint(bytes, pos, n, acc) ==
    IF n = 0 THEN acc
    ELSE CodePoint(bytes, pos + 1, n - 1, acc * 64 + (bytes[pos] - 128))

RECURSIVE utf_8_decode(_, _)
utf_8_decode(bytes, pos) ==
    IF pos > Len(bytes)
    THEN [ok |-> TRUE, text |-> <<>>, start |-> 0, reason |-> ""]
    ELSE LET lead == bytes[pos]
             n    == SeqLength(lead)
             bad  == {j \in 1..(n-1) :
                        \/ pos + j > Len(bytes)
                        \/ bytes[pos + j] \notin ContinuationRange(lead, j)}
         IN  IF n = 0
             THEN [ok |-> FALSE, text |-> <<>>, start |-> pos - 1,
                   reason |-> "invalid start byte"]
             ELSE IF bad # {}
             THEN LET j == CHOOSE x \in bad : \A y \in bad : x <= y
                  IN  [ok |-> FALSE, text |-> <<>>, start |-> pos - 1,
                       reason |-> IF pos + j > Len(bytes)
                                  THEN "unexpected end of data"
                                  ELSE "invalid continuation byte"]
             ELSE LET cp   == IF n = 1 THEN lead
                              ELSE CodePoint(bytes, pos + 1, n - 1, LeadBits(lead, n))
                      rest == utf_8_decode(bytes, pos + n)
                  IN  IF rest.ok
                      THEN [rest EXCEPT !.text = <<cp>> \o rest.text]
                      ELSE rest

RECURSIVE translate_newlines(_)
translate_newlines(s) ==
    IF s = <<>> THEN <<>>
    ELSE IF s[1] = 13
    THEN <<10>> \o translate_newlines(
             IF Len(s) >= 2 /\ s[2] = 10 THEN SubSeq(s, 3, Len(s)) ELSE Tail(s))
    ELSE <<s[1]>> \o translate_newlines(Tail(s))

read_text(file) == translate_newlines(utf_8_decode(file.bytes, 1).text)

(***************************************************************************)
(* Exceptions.  str(exc) of an OSError quotes the file name; str(exc) of a *)
(* UnicodeDecodeError gives codec, position and reason, and no file name.  *)
(***************************************************************************)
NoException ==
    [type |-> "None", errno |-> 0, filename |-> <<>>, start |-> 0, reason |-> ""]

FileNotFoundError(path) ==
    [type |-> "FileNotFoundError", errno |-> 2, filename |-> path,
     start |-> 0, reason |-> "No such file or directory"]

PermissionError(path) ==
    [type |-> "PermissionError", errno |-> 13, filename |-> path,
     start |-> 0, reason |-> "Permission denied"]

UnicodeDecodeError(d) ==
    [type |-> "UnicodeDecodeError", errno |-> 0, filename |-> <<>>,
     start |-> d.start, reason |-> d.reason]

ExceptionBase(type) ==
    IF type \in {"FileNotFoundError", "PermissionError"} THEN "OSError"
    ELSE IF type = "UnicodeDecodeError" THEN "ValueError"
    ELSE "None"

(***************************************************************************)
(* One line of standard output.                                            *)
(***************************************************************************)
Line(tag, text, chars, num, keys) ==
    [tag |-> tag, text |-> text, chars |-> chars, num |-> num, keys |-> keys]

NoDoc == [file |-> <<>>, title |-> "", summary |-> ""]

dict_keys(d) == [k \in 1..Len(d) |-> d[k][1]]

dict_get(d, key) == d[CHOOSE k \in 1..Len(d) : d[k][1] = key][2]

(***************************************************************************)
(* Inputs explored: manifests and the files of the sections directory.     *)
(***************************************************************************)
SeqsUpTo(S, lo, hi) == UNION {[1..k -> S] : k \in lo..hi}

GoodFile   == [exists |-> TRUE, readable |-> TRUE, bytes |-> <<195, 169, 13, 10>>]
DeniedFile == [exists |-> TRUE, readable |-> FALSE, bytes |-> <<120>>]
BadFile    == [exists |-> TRUE, readable |-> TRUE, bytes |-> <<120, 255>>]

FileStates == {GoodFile, DeniedFile, BadFile, MissingFile}

FileNames == {<<"0", "_", "a">>, <<"a">>}
Metadata  == {[title |-> "T1", summary |-> "S1"],
              [title |-> "T2", summary |-> "S2"]}

Entries == {[file |-> f, title |-> m.title, summary |-> m.summary] :
                f \in FileNames, m \in Metadata}

NameChars == {"0", "a", "_"}
ExampleNames == {<<"r","e","a","d","m","e",".","m","d">>}
ByteVals  == {10, 13, 120, 195, 169, 226, 130, 255}

PathsOf(docs) == {JoinPath(SECTIONS_DIR, docs[k].file) : k \in 1..Len(docs)}

\* manifests of up to MaxDocs entries, each file in any state
InitManifests ==
    /\ documents \in SeqsUpTo(Entries, 0, MaxDocs)
    /\ fs \in [PathsOf(documents) -> FileStates]

\* one entry whose file name is any short name
InitNames ==
    /\ \E name \in SeqsUpTo(NameChars, 1, MaxNameLen) \cup ExampleNames :
           documents = <<[file |-> name, title |-> "T1", summary |-> "S1"]>>
    /\ fs \in [PathsOf(documents) -> {GoodFile}]

\* one entry whose file holds any short byte string
InitBytes ==
    /\ documents = <<[file |-> <<"a">>, title |-> "T1", summary |-> "S1"]>>
    /\ \E bytes \in SeqsUpTo(ByteVals, 0, MaxContentLen) :
           fs = [p \in PathsOf(documents) |->
                    [exists |-> TRUE, readable |-> TRUE, bytes |-> bytes]]

\* the manifest of the script, with at most one file that cannot be read
InitScript ==
    /\ documents = documents_src
    /\ \E bad \in 0..Len(documents_src), st \in FileStates :
           fs = [p \in PathsOf(documents) |->
                    IF bad > 0 /\ p = JoinPath(SECTIONS_DIR, documents[bad].file)
                    THEN st ELSE GoodFile]

Init ==
    /\ \/ InitManifests
       \/ InitNames
       \/ InitBytes
       \/ InitScript
    /\ PROJECT_ID = PROJECT_ID_src
    /\ pc = "for"
    /\ it = 0
    /\ doc = NoDoc
    /\ filepath = <<>>
    /\ content = <<>>
    /\ content_json = <<>>
    /\ stdout = <<>>
    /\ exc = NoException
    /\ reads = [k \in 1..Len(documents) |-> 0]

(***************************************************************************)
(* The statements of the script.                                           *)
(***************************************************************************)
\* for doc in documents: the iterator yields the next entry
ForNextReversed ==
    /\ pc = "for"
    /\ it < Len(documents)
    /\ it' = it + 1
    /\ doc' = documents[Len(documents) - it]
    /\ pc' = "path"
    /\ UNCHANGED <<documents, PROJECT_ID, fs, filepath, content, content_json,
                   stdout, exc, reads>>

ForNextPop ==
    /\ pc = "for"
    /\ it < Len(documents)
    /\ it' = it
    /\ doc' = Head(documents)
    /\ documents' = Tail(documents)
    /\ pc' = "path"
    /\ UNCHANGED <<PROJECT_ID, fs, filepath, content, content_json,
                   stdout, exc, reads>>

ForNext ==
    /\ pc = "for"
    /\ it < Len(documents)
    /\ it' = it + 1
    /\ doc' = documents[it + 1]
    /\ pc' = "path"
    /\ UNCHANGED <<documents, PROJECT_ID, fs, filepath, content, content_json,
                   stdout, exc, reads>>

\* for doc in documents: the iterator is exhausted
ForExit ==
    /\ pc = "for"
    /\ it = Len(documents)
    /\ pc' = "instr"
    /\ UNCHANGED <<documents, PROJECT_ID, fs, it, doc, filepath, content,
                   content_json, stdout, exc, reads>>

\* filepath = SECTIONS_DIR / doc["file"]
ResolvePath ==
    /\ pc = "path"
    /\ filepath' = JoinPath(SECTIONS_DIR, doc.file)
    /\ pc' = "read"
    /\ UNCHANGED <<documents, PROJECT_ID, fs, it, doc, content, content_json,
                   stdout, exc, reads>>

\* content = filepath.read_text()
ReadOk ==
    /\ pc = "read"
    /\ LET file == FsLookup(fs, filepath)
       IN  /\ file.exists
           /\ file.readable
           /\ utf_8_decode(file.bytes, 1).ok
           /\ content' = read_text(file)
    /\ reads' = [reads EXCEPT ![it] = @ + 1]
    /\ pc' = "build"
    /\ UNCHANGED <<documents, PROJECT_ID, fs, it, doc, filepath, content_json,
                   stdout, exc>>

\* content = filepath.read_text() raises: no such file
ReadMissingSkip ==
    /\ pc = "read"
    /\ ~FsLookup(fs, filepath).exists
    /\ reads' = [reads EXCEPT ![it] = @ + 1]
    /\ pc' = "for"
    /\ UNCHANGED <<documents, PROJECT_ID, fs, it, doc, filepath, content,
                   content_json, stdout, exc>>

ReadMissingBreak ==
    /\ pc = "read"
    /\ ~FsLookup(fs, filepath).exists
    /\ reads' = [reads EXCEPT ![it] = @ + 1]
    /\ exc' = FileNotFoundError(filepath)
    /\ pc' = "instr"
    /\ UNCHANGED <<documents, PROJECT_ID, fs, it, doc, filepath, content,
                   content_json, stdout>>

ReadMissingRetry ==
    /\ pc = "read"
    /\ ~FsLookup(fs, filepath).exists
    /\ reads' = [reads EXCEPT ![it] = @ + 1]
    /\ IF reads[it] < 1
       THEN pc' = "read" /\ exc' = exc
       ELSE pc' = "failed" /\ exc' = FileNotFoundError(filepath)
    /\ UNCHANGED <<documents, PROJECT_ID, fs, it, doc, filepath, content,
                   content_json, stdout>>

ReadMissing ==
    /\ pc = "read"
    /\ ~FsLookup(fs, filepath).exists
    /\ reads' = [reads EXCEPT ![it] = @ + 1]
    /\ exc' = FileNotFoundError(filepath)
    /\ pc' = "failed"
    /\ UNCHANGED <<documents, PROJECT_ID, fs, it, doc, filepath, content,
                   content_json, stdout>>

\* content = filepath.read_text() raises: permission denied
ReadDeniedAsMissing ==
    /\ pc = "read"
    /\ LET file == FsLookup(fs, filepath)
       IN  file.exists /\ ~file.readable
    /\ reads' = [reads EXCEPT ![it] = @ + 1]
    /\ exc' = [PermissionError(filepath) EXCEPT !.filename = <<>>]
    /\ pc' = "failed"
    /\ UNCHANGED <<documents, PROJECT_ID, fs, it, doc, filepath, content,
                   content_json, stdout>>

ReadDenied ==
    /\ pc = "read"
    /\ LET file == FsLookup(fs, filepath)
       IN  file.exists /\ ~file.readable
    /\ reads' = [reads EXCEPT ![it] = @ + 1]
    /\ exc' = PermissionError(filepath)
    /\ pc' = "failed"
    /\ UNCHANGED <<documents, PROJECT_ID, fs, it, doc, filepath, content,
                   content_json, stdout>>

\* content = filepath.read_text() raises: the bytes are not UTF-8
ReadUndecodable ==
    /\ pc = "read"
    /\ LET file == FsLookup(fs, filepath)
           d    == utf_8_decode(file.bytes, 1)
       IN  /\ file.exists
           /\ file.readable
           /\ ~d.ok
           /\ exc' = UnicodeDecodeError(d)
    /\ reads' = [reads EXCEPT ![it] = @ + 1]
    /\ pc' = "failed"
    /\ UNCHANGED <<documents, PROJECT_ID, fs, it, doc, filepath, content,
                   content_json, stdout>>

\* content_json = {...}
BuildRecordSwapped ==
    /\ pc = "build"
    /\ content_json' = << <<"markdown_content", content>>,
                          <<"part", Split(doc.file, "_")[1]>>,
                          <<"summary", doc.title>>,
                          <<"file_reference", filepath>> >>
    /\ pc' = "print_document"
    /\ UNCHANGED <<documents, PROJECT_ID, fs, it, doc, filepath, content,
                   stdout, exc, reads>>

BuildRecord ==
    /\ pc = "build"
    /\ content_json' = << <<"markdown_content", content>>,
                          <<"summary", doc.summary>>,
                          <<"part", Split(doc.file, "_")[1]>>,
                          <<"file_reference", filepath>> >>
    /\ pc' = "print_document"
    /\ UNCHANGED <<documents, PROJECT_ID, fs, it, doc, filepath, content,
                   stdout, exc, reads>>

\* print(f"Document: {doc['title']}")
PrintDocument ==
    /\ pc = "print_document"
    /\ stdout' = Append(stdout, Line("Document", doc.title, <<>>, 0, <<>>))
    /\ pc' = "print_file"
    /\ UNCHANGED <<documents, PROJECT_ID, fs, it, doc, filepath, content,
                   content_json, exc, reads>>

\* print(f"File: {doc['file']}")
PrintFile ==
    /\ pc = "print_file"
    /\ stdout' = Append(stdout, Line("File", "", doc.file, 0, <<>>))
    /\ pc' = "print_size"
    /\ UNCHANGED <<documents, PROJECT_ID, fs, it, doc, filepath, content,
                   content_json, exc, reads>>

\* print(f"Size: {len(content)} characters")
PrintSizeBytes ==
    /\ pc = "print_size"
    /\ stdout' = Append(stdout,
           Line("Size", "", <<>>, Len(FsLookup(fs, filepath).bytes), <<>>))
    /\ pc' = "print_keys"
    /\ UNCHANGED <<documents, PROJECT_ID, fs, it, doc, filepath, content,
                   content_json, exc, reads>>

PrintSize ==
    /\ pc = "print_size"
    /\ stdout' = Append(stdout, Line("Size", "", <<>>, Len(content), <<>>))
    /\ pc' = "print_keys"
    /\ UNCHANGED <<documents, PROJECT_ID, fs, it, doc, filepath, content,
                   content_json, exc, reads>>

\* print(f"Content keys: {list(content_json.keys())}")
PrintKeys ==
    /\ pc = "print_keys"
    /\ stdout' = Append(stdout,
           Line("Content keys", "", <<>>, 0, dict_keys(content_json)))
    /\ pc' = "print_separator"
    /\ UNCHANGED <<documents, PROJECT_ID, fs, it, doc, filepath, content,
                   content_json, exc, reads>>

\* print("-" * 60)
PrintSeparator ==
    /\ pc = "print_separator"
    /\ stdout' = Append(stdout, Line("-", "", <<>>, SeparatorWidth, <<>>))
    /\ pc' = "for"
    /\ UNCHANGED <<documents, PROJECT_ID, fs, it, doc, filepath, content,
                   content_json, exc, reads>>

\* print("\nTo upload these to Archon, ...")
PrintInstructions ==
    /\ pc = "instr"
    /\ stdout' = Append(stdout,
           Line("Instructions",
                "\nTo upload these to Archon, call manage_document for each with the content_json structure above.",
                <<>>, 0, <<>>))
    /\ pc' = "total"
    /\ UNCHANGED <<documents, PROJECT_ID, fs, it, doc, filepath, content,
                   content_json, exc, reads>>

\* print(f"\nTotal documents: {len(documents)}")
PrintTotalDistinct ==
    /\ pc = "total"
    /\ stdout' = Append(stdout,
           Line("Total documents", "", <<>>,
                Cardinality({documents[k].file : k \in 1..Len(documents)}), <<>>))
    /\ pc' = "done"
    /\ UNCHANGED <<documents, PROJECT_ID, fs, it, doc, filepath, content,
                   content_json, exc, reads>>

PrintTotal ==
    /\ pc = "total"
    /\ stdout' = Append(stdout,
           Line("Total documents", "", <<>>, Len(documents), <<>>))
    /\ pc' = "done"
    /\ UNCHANGED <<documents, PROJECT_ID, fs, it, doc, filepath, content,
                   content_json, exc, reads>>

Next ==
    \/ ForNext
    \/ ForExit
    \/ ResolvePath
    \/ ReadOk
    \/ ReadMissing
    \/ ReadDenied
    \/ ReadUndecodable
    \/ BuildRecord
    \/ PrintDocument
    \/ PrintFile
    \/ PrintSize
    \/ PrintKeys
    \/ PrintSeparator
    \/ PrintInstructions
    \/ PrintTotal

Spec == Init /\ [][Next]_vars

\* the interpreter runs the script to its end: no statement is left waiting
FairSpec == Spec /\ WF_vars(Next)

(***************************************************************************)
(* Vocabulary of the properties.                                           *)
(***************************************************************************)
Terminal == {"done", "failed"}

PathOfEntry(k) == SECTIONS_DIR \o <<"/">> \o documents[k].file

FileOfEntry(k) == FsLookup(fs, PathOfEntry(k))

Readable(file) ==
    /\ file.exists
    /\ file.readable
    /\ utf_8_decode(file.bytes, 1).ok

AllReadable == \A k \in 1..Len(documents) : Readable(FileOfEntry(k))

\* index of the first entry whose file cannot be read (0 when there is none)
FirstUnreadable ==
    IF AllReadable THEN 0
    ELSE CHOOSE k \in 1..Len(documents) :
             /\ ~Readable(FileOfEntry(k))
             /\ \A j \in 1..(k-1) : Readable(FileOfEntry(j))

LinesWithTag(tag) == {k \in 1..Len(stdout) : stdout[k].tag = tag}

\* a preview block is counted when its closing separator line is out
PreviewBlocks == Cardinality(LinesWithTag("-"))

BlockTags == <<"Document", "File", "Size", "Content keys", "-">>

BlockLines == {k \in 1..Len(stdout) : stdout[k].tag \in
                  {"Document", "File", "Size", "Content keys", "-"}}

HasNoUnderscore(s) == \A k \in 1..Len(s) : s[k] # "_"

IsPrefix(p, s) == Len(p) <= Len(s) /\ SubSeq(s, 1, Len(p)) = p

RecordBuilt == pc \in {"print_document", "print_file", "print_size",
                       "print_keys", "print_separator"}

(***************************************************************************)
(* C1: when the manifest is not empty and every file it names can be read, *)
(* the run does not fail, and once it is complete it has printed as many   *)
(* preview blocks as the manifest has entries and a total equal to that    *)
(* length; for the manifest of the script both numbers are seven.          *)
(***************************************************************************)
C1_CountEqualsManifestLength ==
    (documents # <<>> /\ AllReadable) =>
        /\ pc # "failed"
        /\ pc = "done" =>
              /\ PreviewBlocks = Len(documents)
              /\ stdout[Len(stdout)].tag = "Total documents"
              /\ stdout[Len(stdout)].num = Len(documents)
              /\ documents = documents_src =>
                    PreviewBlocks = 7 /\ stdout[Len(stdout)].num = 7

C1_Witness ==
    /\ pc = "done"
    /\ documents = documents_src
    /\ AllReadable
    /\ PreviewBlocks = 7

(***************************************************************************)
(* C2: the preview lines printed so far are the blocks of a prefix of the  *)
(* manifest, in manifest order: the line at position 5(i-1)+j is the j-th  *)
(* line of the block of entry i, so a block is complete before the next    *)
(* one starts, and a repeated file name is previewed at each occurrence.   *)
(***************************************************************************)
C2_PreviewOrderIsManifestOrder ==
    /\ \A k \in BlockLines :
           LET i == ((k - 1) \div 5) + 1
               j == ((k - 1) % 5) + 1
           IN  /\ i <= Len(documents)
               /\ i <= it
               /\ stdout[k].tag = BlockTags[j]
               /\ (j = 1 => stdout[k].text = documents[i].title)
               /\ (j = 2 => stdout[k].chars = documents[i].file)
    /\ \A k \in 1..Len(stdout) :
           k \notin BlockLines => \A m \in BlockLines : m < k

C2_Witness ==
    /\ pc = "done"
    /\ Len(documents) = 3
    /\ documents[1].file = documents[3].file
    /\ documents[1].file # documents[2].file
    /\ documents[1].title # documents[3].title
    /\ PreviewBlocks = 3

(***************************************************************************)
(* C3: when the file of entry k is missing and the files of the entries    *)
(* before k can be read, the run ends in failure at entry k with exactly   *)
(* the k-1 blocks of the earlier entries printed, no line of block k, and  *)
(* no entry after k read.                                                  *)
(***************************************************************************)
C3_AbortAtMissingFile ==
    \A k \in 1..Len(documents) :
        (/\ ~FileOfEntry(k).exists
         /\ \A j \in 1..(k-1) : Readable(FileOfEntry(j)))
        => /\ it <= k
           /\ Len(stdout) <= 5 * (k - 1)
           /\ \A j \in (k+1)..Len(documents) : reads[j] = 0
           /\ pc # "done"
           /\ pc = "failed" =>
                 /\ it = k
                 /\ exc.type = "FileNotFoundError"
                 /\ Len(stdout) = 5 * (k - 1)
                 /\ PreviewBlocks = k - 1
                 /\ \A j \in 1..(k-1) :
                        stdout[5 * (j - 1) + 1].text = documents[j].title

C3_Witness ==
    /\ pc = "failed"
    /\ Len(documents) = 3
    /\ Readable(FileOfEntry(1))
    /\ ~FileOfEntry(2).exists
    /\ Readable(FileOfEntry(3))
    /\ PreviewBlocks = 1
    /\ stdout[1].text = documents[1].title

(***************************************************************************)
(* C4: the part of a content record is the piece of the file name before   *)
(* its first underscore, and the whole name when it has no underscore.     *)
(***************************************************************************)
C4_PartIsPrefixBeforeFirstUnderscore ==
    RecordBuilt =>
        LET part == dict_get(content_json, "part")
            file == documents[it].file
        IN  /\ IsPrefix(part, file)
            /\ HasNoUnderscore(part)
            /\ \/ part = file
               \/ file[Len(part) + 1] = "_"
            /\ file = documents_src[5].file => part = <<"0", "5">>
            /\ file \in ExampleNames => part = file

C4_Witness ==
    /\ RecordBuilt
    /\ documents[it].file = <<"_", "a", "_", "0">>
    /\ dict_get(content_json, "part") = <<>>

(***************************************************************************)
(* C5 as stated: every failed read ends the run with one kind of error     *)
(* whose message names the path of the file.                               *)
(***************************************************************************)
C5_Original_OneKindNamingThePath ==
    pc = "failed" =>
        /\ ExceptionBase(exc.type) = "OSError"
        /\ exc.filename = PathOfEntry(it)

(***************************************************************************)
(* C5 amended: a missing file and a file without read permission end the   *)
(* run with an OSError (FileNotFoundError, PermissionError) whose message  *)
(* names the path; bytes that are not UTF-8 end it with a                  *)
(* UnicodeDecodeError, a ValueError, whose message gives the position of   *)
(* the offending byte and no path.                                         *)
(***************************************************************************)
C5_FailureKindByCause ==
    pc = "failed" =>
        LET file == FileOfEntry(it)
        IN  /\ ~Readable(file)
            /\ ~file.exists =>
                  /\ exc.type = "FileNotFoundError"
                  /\ ExceptionBase(exc.type) = "OSError"
                  /\ exc.filename = PathOfEntry(it)
            /\ (file.exists /\ ~file.readable) =>
                  /\ exc.type = "PermissionError"
                  /\ ExceptionBase(exc.type) = "OSError"
                  /\ exc.filename = PathOfEntry(it)
            /\ (file.exists /\ file.readable) =>
                  /\ exc.type = "UnicodeDecodeError"
                  /\ ExceptionBase(exc.type) = "ValueError"
                  /\ exc.filename = <<>>
                  /\ exc.start < Len(file.bytes)
                  /\ file.bytes[exc.start + 1] >= 128

C5_Witness ==
    /\ pc = "failed"
    /\ exc.type = "UnicodeDecodeError"
    /\ exc.start = 1


(***************************************************************************)
(* C6: the number on the Size line of the block of entry i is the length   *)
(* of the text read from the file of entry i, and that text is the         *)
(* markdown_content of the content record of the entry.                    *)
(***************************************************************************)
C6_SizeIsLengthOfTextRead ==
    /\ \A k \in LinesWithTag("Size") :
           LET i    == ((k - 1) \div 5) + 1
               file == FileOfEntry(i)
           IN  /\ stdout[k].num = Len(read_text(file))
               /\ stdout[k].num <= Len(file.bytes)
               /\ file.bytes = <<195, 169, 13, 10>> => stdout[k].num = 2
               /\ file.bytes = <<226, 130, 130>> => stdout[k].num = 1
    /\ RecordBuilt =>
           /\ dict_get(content_json, "markdown_content") = content
           /\ content = read_text(FileOfEntry(it))

C6_Witness ==
    /\ pc = "print_keys"
    /\ FileOfEntry(it).bytes = <<195, 169, 13, 10>>
    /\ stdout[Len(stdout)].tag = "Size"
    /\ stdout[Len(stdout)].num = 2

(***************************************************************************)
(* C7: the instruction line and the total line are printed once, as the    *)
(* last two lines of a run that read every file, right after the separator *)
(* of the last entry; a run that failed on a read has printed neither, its *)
(* output being the blocks of the entries before the failing one.          *)
(***************************************************************************)
C7_ClosingLinesOnlyOnSuccess ==
    /\ Cardinality(LinesWithTag("Instructions")) <= 1
    /\ Cardinality(LinesWithTag("Total documents")) <= 1
    /\ \A k \in LinesWithTag("Instructions") :
           /\ k = 5 * Len(documents) + 1
           /\ k > 1 => stdout[k - 1].tag = "-"
    /\ \A k \in LinesWithTag("Total documents") :
           /\ k = 5 * Len(documents) + 2
           /\ stdout[k - 1].tag = "Instructions"
    /\ pc = "done" =>
           /\ Len(stdout) = 5 * Len(documents) + 2
           /\ Cardinality(LinesWithTag("Instructions")) = 1
           /\ Cardinality(LinesWithTag("Total documents")) = 1
    /\ (pc = "failed" \/ exc # NoException) =>
           /\ LinesWithTag("Instructions") = {}
           /\ LinesWithTag("Total documents") = {}
           /\ Len(stdout) = 5 * (it - 1)
           /\ PreviewBlocks = it - 1

C7_Witness ==
    /\ pc = "done"
    /\ Len(documents) = 2
    /\ stdout[10].tag = "-"
    /\ stdout[11].tag = "Instructions"
    /\ stdout[12].tag = "Total documents"

(***************************************************************************)
(* C8: a preview block is the title, the file name, the length of          *)
(* markdown_content, the field names of the content record and a separator *)
(* line, in this order; the field names are markdown_content, summary,     *)
(* part, file_reference; summary is the summary of the entry and           *)
(* file_reference is the path of the file under the sections directory.    *)
(***************************************************************************)
C8_BlockLayoutAndRecordFields ==
    /\ \A i \in 1..PreviewBlocks :
           LET b == 5 * (i - 1)
           IN  /\ stdout[b + 1] = Line("Document", documents[i].title, <<>>, 0, <<>>)
               /\ stdout[b + 2] = Line("File", "", documents[i].file, 0, <<>>)
               /\ stdout[b + 3].tag = "Size"
               /\ stdout[b + 3].num = Len(read_text(FileOfEntry(i)))
               /\ stdout[b + 4] = Line("Content keys", "", <<>>, 0, ContentKeys)
               /\ stdout[b + 5] = Line("-", "", <<>>, SeparatorWidth, <<>>)
    /\ RecordBuilt =>
           /\ dict_keys(content_json) = ContentKeys
           /\ dict_get(content_json, "summary") = documents[it].summary
           /\ dict_get(content_json, "file_reference") = PathOfEntry(it)
           /\ Len(dict_get(content_json, "markdown_content")) =
                  Len(read_text(FileOfEntry(it)))

C8_Witness ==
    /\ pc = "for"
    /\ PreviewBlocks = 2
    /\ documents[1].summary # documents[2].summary
    /\ stdout[9].keys = ContentKeys

C10_TerminatesInOneOfTwoStates ==
    /\ <>(pc \in Terminal)
    /\ [](/\ pc \in {"for", "path", "read", "build", "print_document",
                     "print_file", "print_size", "print_keys",
                     "print_separator", "instr", "total", "done", "failed"}
          /\ \A k \in 1..Len(documents) : reads[k] <= 1
          /\ pc = "done" =>
                /\ AllReadable
                /\ exc = NoException
                /\ PreviewBlocks = Len(documents)
                /\ stdout[Len(stdout)].tag = "Total documents"
                /\ \A k \in 1..Len(documents) : reads[k] = 1
          /\ pc = "failed" =>
                /\ ~AllReadable
                /\ exc # NoException
                /\ it = FirstUnreadable
                /\ PreviewBlocks = it - 1
                /\ \A k \in 1..Len(documents) :
                       reads[k] = IF k <= it THEN 1 ELSE 0)
    /\ [][pc \notin Terminal]_vars

C10_Witness ==
    /\ pc = "failed"
    /\ Len(documents) = 3
    /\ it = 2
    /\ reads = <<1, 1, 0>>
====
